---- MODULE Spec2Model ----
(***************************************************************************)
(* Goal tracker: the Streamlit handlers of app.py (add_goal,               *)
(* update_progress, delete_goal over st.session_state.data / .history)     *)
(* and the file-backed functions of tracker_utils.py (add_goal,            *)
(* update_goal over tracker_data.csv / progress_history.csv).              *)
(*                                                                         *)
(* Dates are day offsets from 2024-01-01 (a Monday); the calendar          *)
(* operators compute the proleptic Gregorian year, month and ISO week of   *)
(* an offset the way datetime.date does.  A GoalID "G<n>" is the integer   *)
(* n.  Progress is the exact rational value of the score, a reduced        *)
(* fraction [num, den]; the factors 1.01 and 1.005 are 101/100 and         *)
(* 201/200.  Binary floating point rounds each product by at most one      *)
(* unit in the last place, which this model does not represent.  A goal    *)
(* name is a sequence of characters.  The two Excel files and the two CSV  *)
(* files are the tables a later read of them returns.                      *)
(***************************************************************************)
EXTENDS Integers, Sequences, FiniteSets, TLC

VARIABLES
    today,        \* date.today(), as a day offset
    data,         \* st.session_state.data: sequence of goal rows
    history,      \* st.session_state.history: sequence of event rows
    csv_data,     \* tracker_data.csv as load_data() reads it
    csv_history,  \* progress_history.csv as load_history() reads it
    last,         \* the last handler call and what it reported
    issued,       \* the GoalIDs add_goal of app.py has assigned so far
    file_data,    \* tracker_data.xlsx (DATA_PATH) as read_excel reads it
    file_history, \* progress_history.xlsx (HISTORY_PATH), likewise
    other,        \* data and history of the browser session not running
    faults,       \* failures of file writes and git commands still to come
    cap           \* events a table of events may hold in this run

vars == <<today, data, history, csv_data, csv_history, last, issued,
          file_data, file_history, other, faults, cap>>

----------------------------------------------------------------------------
(* Bounds of the model *)

\* rows the Goal Store may hold at once
MaxGoals == 2
\* events the History Store may hold at once
MaxHistory == 3
\* failures a faulty host produces
MaxFaults == 1
\* the last date of a run whose clock moves day by day
LastDay == 3

\* the dates 'today' takes: 2024-01-01 (Mon, ISO week 1 of 2024),
\* 2024-01-02 (Tue, week 1 of 2024), 2024-12-23 (Mon, week 52 of 2024),
\* 2024-12-30 (Mon, week 1 of 2025)
Days == {0, 1, 357, 364}

Frequencies == {"Daily", "Weekly", "Monthly"}

\* goal names typed into the form, as sequences of characters: empty, blank,
\* plain, and with a leading blank
Names == {<<>>, <<" ">>, <<"r">>, <<" ", "r">>}
Outcomes == {0, 50, 100}
GoalIds == 1..MaxGoals

----------------------------------------------------------------------------
(* datetime.date arithmetic on day offsets *)

BaseYear == 2024

IsLeap(y) == (y % 4 = 0) /\ ((y % 100 # 0) \/ (y % 400 = 0))

DaysInYear(y) == IF IsLeap(y) THEN 366 ELSE 365

DaysInMonth(y, m) ==
    IF m = 2 THEN (IF IsLeap(y) THEN 29 ELSE 28)
    ELSE IF m \in {4, 6, 9, 11} THEN 30 ELSE 31

\* offset of January 1st of year y
RECURSIVE YearStart(_)
YearStart(y) ==
    IF y = BaseYear THEN 0
    ELSE IF y > BaseYear THEN YearStart(y - 1) + DaysInYear(y - 1)
    ELSE YearStart(y + 1) - DaysInYear(y)

RECURSIVE YearFrom(_, _)
YearFrom(d, y) ==
    IF d < YearStart(y) THEN YearFrom(d, y - 1)
    ELSE IF d >= YearStart(y + 1) THEN YearFrom(d, y + 1)
    ELSE y

\* date.year
YearOf(d) == YearFrom(d, BaseYear)

RECURSIVE MonthFrom(_, _, _)
MonthFrom(rest, y, m) ==
    IF rest < DaysInMonth(y, m) THEN m
    ELSE MonthFrom(rest - DaysInMonth(y, m), y, m + 1)

\* date.month
MonthOf(d) == MonthFrom(d - YearStart(YearOf(d)), YearOf(d), 1)

\* date.weekday(): Monday = 0 .. Sunday = 6 (offset 0 is a Monday)
Weekday(d) == d % 7

\* datetime._isoweek1monday: the Monday that starts ISO week 1 of year y
IsoWeek1Monday(y) ==
    LET firstday == YearStart(y)
        firstweekday == Weekday(firstday)
        week1monday == firstday - firstweekday
    IN  IF firstweekday > 3 THEN week1monday + 7 ELSE week1monday

\* date.isocalendar(): <<ISO year, ISO week>>
IsoCalendar(d) ==
    LET year == YearOf(d)
        week == (d - IsoWeek1Monday(year)) \div 7
    IN  IF week < 0
        THEN <<year - 1, ((d - IsoWeek1Monday(year - 1)) \div 7) + 1>>
        ELSE IF week >= 52 /\ d >= IsoWeek1Monday(year + 1)
        THEN <<year + 1, 1>>
        ELSE <<year, week + 1>>

get_week_number(d) == IsoCalendar(d)[2]

\* pd.Period(d, freq='M'): the calendar month of d
to_period_M(d) == <<YearOf(d), MonthOf(d)>>

----------------------------------------------------------------------------
(* Progress arithmetic *)

RECURSIVE Gcd(_, _)
Gcd(a, b) == IF b = 0 THEN a ELSE Gcd(b, a % b)

\* the fraction n/d in lowest terms
Frac(n, d) == [num |-> n \div Gcd(n, d), den |-> d \div Gcd(n, d)]

Times(p, f) == Frac(p.num * f.num, p.den * f.den)
Over(p, f) == Frac(p.num * f.den, p.den * f.num)

One == Frac(1, 1)
DAILY_UP_FACTOR == Frac(101, 100)
HALF_UP_FACTOR == Frac(201, 200)
DOWN_FACTOR == Frac(101, 100)

\* an update that scales the score by the outcome taken as a fraction
new_progress_scaled(current_progress, pct) ==
    Times(current_progress, Frac(pct, 100))

\* new_progress of update_progress
new_progress(current_progress, pct) ==
    IF pct = 100 THEN Times(current_progress, DAILY_UP_FACTOR)
    ELSE IF pct = 50 THEN Times(current_progress, HALF_UP_FACTOR)
    ELSE Over(current_progress, DOWN_FACTOR)

\* change of update_progress, in thousandths
change(pct) ==
    IF pct = 100 THEN 10
    ELSE IF pct = 50 THEN 5
    ELSE -10

----------------------------------------------------------------------------
(* Table helpers *)

\* df[mask], the rows of a table that satisfy a mask in their order, is
\* SelectSeq

Rows(tbl) == {tbl[i] : i \in DOMAIN tbl}

\* data.loc[data.GoalID == goal_id, "Progress"] = value
SetProgress(tbl, goal_id, value) ==
    [i \in DOMAIN tbl |->
        IF tbl[i].GoalID = goal_id THEN [tbl[i] EXCEPT !.Progress = value]
        ELSE tbl[i]]

\* the events of one GoalID that an update wrote (the seed has Change 0.0)
Updates(hist, goal_id) ==
    {i \in DOMAIN hist : hist[i].GoalID = goal_id /\ hist[i].Change # 0}

----------------------------------------------------------------------------
(* str.strip *)

Whitespace == {" "}

RECURSIVE lstrip(_)
lstrip(s) ==
    IF s # <<>> /\ Head(s) \in Whitespace THEN lstrip(Tail(s)) ELSE s

RECURSIVE rstrip(_)
rstrip(s) ==
    IF s # <<>> /\ s[Len(s)] \in Whitespace
    THEN rstrip(SubSeq(s, 1, Len(s) - 1)) ELSE s

strip(s) == rstrip(lstrip(s))

----------------------------------------------------------------------------
(* app.py: persistence *)

\* how one run of save_dataframes can end.  "pushed": both files replaced
\* and commit_and_push_to_github returned without an error (pushed, or no
\* token).  "to_excel failed": an exception before the first replace.
\* "replace failed": tmp_data.replace(DATA_PATH) done, an exception in
\* tmp_hist.replace(HISTORY_PATH).  "git failed": files saved, a git command
\* exited non-zero (CalledProcessError).  "git missing": files saved, git
\* could not be started (subprocess.run raises FileNotFoundError).
SaveOutcomes ==
    IF faults > 0
    THEN {"pushed", "to_excel failed", "replace failed", "git failed",
          "git missing"}
    ELSE {"pushed"}

\* what save_dataframes does with a failure: "st.error" (shown and logged by
\* its except clause), "logger.error" (the except clauses of
\* commit_and_push_to_github), "raise" (no except clause matches and the
\* exception leaves the handler), "" (no failure)
SaveReport(outcome) ==
    IF outcome \in {"to_excel failed", "replace failed"} THEN "st.error"
    ELSE IF outcome = "git failed" THEN "logger.error"
    ELSE IF outcome = "git missing" THEN "raise"
    ELSE ""

\* save_dataframes, run after the session tables took their new values
save_dataframes(outcome) ==
    /\ file_data' = IF outcome = "to_excel failed" THEN file_data ELSE data'
    /\ file_history' = IF outcome \in {"to_excel failed", "replace failed"}
                       THEN file_history ELSE history'
    /\ faults' = IF outcome = "pushed" THEN faults ELSE faults - 1

\* the message a handler shows after save_dataframes: st.success is not
\* reached when an exception left save_dataframes
AfterSave(outcome, success) ==
    IF SaveReport(outcome) = "raise" THEN "FileNotFoundError" ELSE success

----------------------------------------------------------------------------
(* app.py *)

\* next_id of add_goal
next_id(tbl) == Len(tbl) + 1

add_goal(name, freq) ==
    /\ Len(data) < MaxGoals
    /\ Len(history) < cap
    /\ LET goal_id == next_id(data)
           new_row == [GoalID |-> goal_id, GoalName |-> strip(name),
                       Frequency |-> freq,
                       Progress |-> One, DateAdded |-> today]
           hist_row == [GoalID |-> goal_id, GoalName |-> strip(name),
                        Date |-> today, Progress |-> One,
                        Percentage |-> 0, Change |-> 0]
       IN  /\ data' = Append(data, new_row)
           /\ history' = Append(history, hist_row)
           /\ \E outcome \in SaveOutcomes :
                 /\ save_dataframes(outcome)
                 /\ last' = [op |-> "add_goal", goal_id |-> goal_id,
                             found |-> FALSE,
                             msg |-> AfterSave(outcome, "Added Goal"),
                             save |-> outcome]
           /\ issued' = issued \cup {goal_id}
    /\ UNCHANGED <<cap, today, csv_data, csv_history, other>>

\* the submit branch of add_goal_form
add_goal_form(name, freq) ==
    IF strip(name) = <<>>
    THEN /\ last' = [op |-> "add_goal_form", goal_id |-> 0, found |-> FALSE,
                     msg |-> "Please enter a goal name.", save |-> "none"]
         /\ UNCHANGED <<cap, today, data, history, csv_data, csv_history,
                        issued,
                        file_data, file_history, other, faults>>
    ELSE add_goal(name, freq)

_get_goal_frequency(goal_id) ==
    LET rows == SelectSeq(data, LAMBDA r : r.GoalID = goal_id)
    IN  IF rows = <<>> THEN "Daily" ELSE rows[1].Frequency

\* a gate that looks at update rows only and so never sees the seed
already_updates_only(hist, freq, goal_id, day) ==
    IF freq = "Weekly"
    THEN SelectSeq(hist, LAMBDA e : e.GoalID = goal_id /\ e.Change # 0
                        /\ get_week_number(e.Date) = get_week_number(day))
    ELSE IF freq = "Monthly"
    THEN SelectSeq(hist, LAMBDA e : e.GoalID = goal_id /\ e.Change # 0
                        /\ to_period_M(e.Date) = to_period_M(day))
    ELSE SelectSeq(hist, LAMBDA e : e.GoalID = goal_id /\ e.Change # 0
                        /\ e.Date = day)

\* the rows 'already' of update_progress, by frequency
already(hist, freq, goal_id, day) ==
    IF freq = "Weekly"
    THEN SelectSeq(hist, LAMBDA e : e.GoalID = goal_id
                        /\ get_week_number(e.Date) = get_week_number(day))
    ELSE IF freq = "Monthly"
    THEN SelectSeq(hist, LAMBDA e : e.GoalID = goal_id
                        /\ to_period_M(e.Date) = to_period_M(day))
    ELSE SelectSeq(hist, LAMBDA e : e.GoalID = goal_id /\ e.Date = day)

\* the st.error text of a blocked update
AlreadyMsg(freq) ==
    IF freq = "Weekly" THEN "Already updated for week"
    ELSE IF freq = "Monthly" THEN "Already updated this month."
    ELSE "Already updated today."

update_progress(goal_id, pct) ==
    LET freq == _get_goal_frequency(goal_id)
        rows == SelectSeq(data, LAMBDA r : r.GoalID = goal_id)
        Report(m, sv) == [op |-> "update_progress", goal_id |-> goal_id,
                          found |-> rows # <<>>, msg |-> m, save |-> sv]
    IN
    /\ UNCHANGED <<cap, today, csv_data, csv_history, issued, other>>
    /\ IF already(history, freq, goal_id, today) # <<>>
       THEN /\ last' = Report(AlreadyMsg(freq), "none")
            /\ UNCHANGED <<data, history, file_data, file_history, faults>>
       ELSE IF rows = <<>>
       THEN \* .iloc[0] on an empty selection
            /\ last' = Report("IndexError", "none")
            /\ UNCHANGED <<data, history, file_data, file_history, faults>>
       ELSE /\ Len(history) < cap
            /\ LET new == new_progress(rows[1].Progress, pct)
               IN  /\ data' = SetProgress(data, goal_id, new)
                   /\ history' = Append(history,
                          [GoalID |-> goal_id, GoalName |-> rows[1].GoalName,
                           Date |-> today,
                           Progress |-> new, Percentage |-> pct,
                           Change |-> change(pct)])
            /\ \E outcome \in SaveOutcomes :
                  /\ save_dataframes(outcome)
                  /\ last' = Report(AfterSave(outcome, "Progress updated!"),
                                    outcome)

\* a delete that drops the goal row and keeps its history
delete_goal_keeps_history(goal_id) ==
    /\ data' = SelectSeq(data, LAMBDA r : r.GoalID # goal_id)
    /\ history' = history
    /\ \E outcome \in SaveOutcomes :
          /\ save_dataframes(outcome)
          /\ last' = [op |-> "delete_goal", goal_id |-> goal_id,
                      found |-> \E i \in DOMAIN data :
                                    data[i].GoalID = goal_id,
                      msg |-> AfterSave(outcome, "Deleted"),
                      save |-> outcome]
    /\ UNCHANGED <<cap, today, csv_data, csv_history, issued, other>>

delete_goal(goal_id) ==
    /\ data' = SelectSeq(data, LAMBDA r : r.GoalID # goal_id)
    /\ history' = SelectSeq(history, LAMBDA e : e.GoalID # goal_id)
    /\ \E outcome \in SaveOutcomes :
          /\ save_dataframes(outcome)
          /\ last' = [op |-> "delete_goal", goal_id |-> goal_id,
                      found |-> \E i \in DOMAIN data :
                                    data[i].GoalID = goal_id,
                      msg |-> AfterSave(outcome, "Deleted"),
                      save |-> outcome]
    /\ UNCHANGED <<cap, today, csv_data, csv_history, issued, other>>

\* the sidebar button "Reload from disk / Git", and the first run of a
\* session: _init_dataframes reads both files into the session tables
reload ==
    /\ data' = file_data
    /\ history' = file_history
    /\ last' = [op |-> "reload", goal_id |-> 0, found |-> FALSE, msg |-> "",
                save |-> "none"]
    /\ UNCHANGED <<cap, today, csv_data, csv_history, issued, file_data,
                   file_history, other, faults>>

\* the server turns from one browser session to the other: each session
\* has its own st.session_state.data and .history, the files are shared
switch_session ==
    /\ data' = other.data
    /\ history' = other.history
    /\ other' = [data |-> data, history |-> history]
    /\ last' = [op |-> "switch_session", goal_id |-> 0, found |-> FALSE,
                msg |-> "", save |-> "none"]
    /\ UNCHANGED <<cap, today, csv_data, csv_history, issued, file_data,
                   file_history, faults>>

----------------------------------------------------------------------------
(* app.py: the derived views *)

\* the for loop of calculate_potential_progress: n more rounds of
\* potential *= DAILY_UP_FACTOR
RECURSIVE PotentialLoop(_, _)
PotentialLoop(n, potential) ==
    IF n <= 0 THEN potential
    ELSE PotentialLoop(n - 1, Times(potential, DAILY_UP_FACTOR))

calculate_potential_progress(start_date) ==
    LET days == today - start_date
    IN  PotentialLoop(days + 1, One)

\* date(year, month, day) as a day offset
RECURSIVE MonthStart(_, _)
MonthStart(y, m) ==
    IF m = 1 THEN YearStart(y)
    ELSE MonthStart(y, m - 1) + DaysInMonth(y, m - 1)

DateOf(y, m, day) == MonthStart(y, m) + day - 1

Max(a, b) == IF a >= b THEN a ELSE b

\* the emoji of a recorded Percentage
PctEmoji(pct) ==
    IF pct = 100 THEN "Full" ELSE IF pct = 50 THEN "Half" ELSE "Zero"

\* start_date of the views: DateAdded of the first row with the GoalID
view_start_date(goal_id) ==
    SelectSeq(data, LAMBDA r : r.GoalID = goal_id)[1].DateAdded

\* show_last_7_days: the emoji of every date of date_range
show_last_7_days(goal_id) ==
    LET start_date == view_start_date(goal_id)
        display_start == Max(today - 6, start_date)
        df_goal == SelectSeq(history, LAMBDA e : e.GoalID = goal_id)
    IN  [d \in display_start..today |->
            IF d = start_date THEN "Start"
            ELSE LET row == SelectSeq(df_goal, LAMBDA e : e.Date = d)
                 IN  IF row = <<>> THEN "Missed"
                     ELSE PctEmoji(row[Len(row)].Percentage)]

\* hist_by_date of show_calendar: sort_values("Date") keeps the rows of one
\* date in their table order, so tail(1) of a date's group is the row of
\* that date recorded last
hist_by_date(df_goal) ==
    [ds \in {df_goal[i].Date : i \in DOMAIN df_goal} |->
        LET grp == SelectSeq(df_goal, LAMBDA e : e.Date = ds)
        IN  grp[Len(grp)].Percentage]

\* show_calendar: the emoji of every day of the month
show_calendar(goal_id, year, month) ==
    LET start_date == view_start_date(goal_id)
        df_goal == SelectSeq(history, LAMBDA e : e.GoalID = goal_id)
        by_date == hist_by_date(df_goal)
        last_day == DaysInMonth(year, month)
    IN  [d \in 1..last_day |->
            LET ds == DateOf(year, month, d)
            IN  IF ds > today THEN "Future"
                ELSE IF ds = start_date THEN "Start"
                ELSE IF ds \in DOMAIN by_date THEN PctEmoji(by_date[ds])
                ELSE "Missed"]

----------------------------------------------------------------------------
(* tracker_utils.py: every call loads both files, changes the tables and
   saves them again *)

\* len(data['GoalID'].unique())
UniqueIds(tbl) == Cardinality({tbl[i].GoalID : i \in DOMAIN tbl})

\* goal_id of tracker_utils.add_goal
utils_goal_id(tbl) == IF tbl # <<>> THEN UniqueIds(tbl) + 1 ELSE 1

\* what a caller of tracker_utils.add_goal may pass as frequency
UtilsFrequencies == Frequencies \cup {"Yearly"}

\* the missing value read_csv gives for an empty field
NaN == <<"NaN">>

\* a GoalName after to_csv and read_csv
csv_name(goal_name) == IF goal_name = <<>> THEN NaN ELSE goal_name

\* how one run of save_data can end: both files written, an exception in
\* data.to_csv, or an exception in history.to_csv after data.to_csv
UtilsSaveOutcomes ==
    IF faults > 0 THEN {"saved", "to_csv failed", "history to_csv failed"}
    ELSE {"saved"}

\* save_data(data, history)
save_data(outcome, new_data, new_history) ==
    /\ csv_data' = IF outcome = "to_csv failed" THEN csv_data ELSE new_data
    /\ csv_history' = IF outcome = "saved" THEN new_history ELSE csv_history
    /\ faults' = IF outcome = "saved" THEN faults ELSE faults - 1

\* what the caller gets: nothing catches an exception of save_data
UtilsResult(outcome, result) ==
    IF outcome = "saved" THEN result ELSE "OSError"

utils_add_goal(goal_name, frequency) ==
    /\ Len(csv_data) < MaxGoals
    /\ Len(csv_history) < cap
    /\ LET goal_id == utils_goal_id(csv_data)
           new_item == [GoalID |-> goal_id, GoalName |-> csv_name(goal_name),
                        Frequency |-> frequency,
                        Progress |-> One, DateAdded |-> today]
           new_history == [GoalID |-> goal_id,
                           GoalName |-> csv_name(goal_name), Date |-> today,
                           Progress |-> One, Percentage |-> 0, Change |-> 0]
       IN  \E outcome \in UtilsSaveOutcomes :
             /\ save_data(outcome, Append(csv_data, new_item),
                          Append(csv_history, new_history))
             /\ last' = [op |-> "utils.add_goal", goal_id |-> goal_id,
                         found |-> FALSE,
                         msg |-> UtilsResult(outcome, "goal_id"),
                         save |-> outcome]
    /\ UNCHANGED <<cap, today, data, history, issued, file_data, file_history,
                   other>>

\* new_progress of update_goal
utils_new_progress(current_progress, percentage) ==
    IF percentage = 100 THEN Times(current_progress, Frac(101, 100))
    ELSE IF percentage = 50 THEN Times(current_progress, Frac(201, 200))
    ELSE Over(current_progress, Frac(101, 100))

\* change of update_goal, in thousandths
utils_change(percentage) ==
    IF percentage = 100 THEN 10
    ELSE IF percentage = 50 THEN 5
    ELSE -10

update_goal(goal_id, percentage) ==
    LET goal_row == SelectSeq(csv_data, LAMBDA r : r.GoalID = goal_id)
        Report(m, sv) == [op |-> "update_goal", goal_id |-> goal_id,
                          found |-> goal_row # <<>>,
                          msg |-> m, save |-> sv]
    IN
    /\ UNCHANGED <<cap, today, data, history, issued, file_data, file_history,
                   other>>
    /\ IF goal_row = <<>>
       THEN /\ last' = Report("Goal ID not found", "none")
            /\ UNCHANGED <<csv_data, csv_history, faults>>
       ELSE /\ Len(csv_history) < cap
            /\ LET new == utils_new_progress(goal_row[1].Progress, percentage)
               IN  \E outcome \in UtilsSaveOutcomes :
                     /\ save_data(outcome,
                            SetProgress(csv_data, goal_id, new),
                            Append(csv_history,
                              [GoalID |-> goal_id,
                               GoalName |-> goal_row[1].GoalName,
                               Date |-> today,
                               Progress |-> new, Percentage |-> percentage,
                               Change |-> utils_change(percentage)]))
                     /\ last' = Report(UtilsResult(outcome, "Goal updated"),
                                       outcome)

----------------------------------------------------------------------------
(* The clock *)

\* date.today() moves to a later date between two handler runs
NextDay ==
    /\ \E d \in Days : d > today /\ today' = d
    /\ UNCHANGED <<data, history, csv_data, csv_history, last, issued,
                   file_data, file_history, other, faults, cap>>

----------------------------------------------------------------------------

NoCall ==
    [op |-> "none", goal_id |-> 0, found |-> FALSE, msg |-> "",
     save |-> "none"]

\* no file exists yet: _init_dataframes starts every session with empty
\* tables
Start ==
    /\ today = 0
    /\ data = <<>>
    /\ history = <<>>
    /\ csv_data = <<>>
    /\ csv_history = <<>>
    /\ last = NoCall
    /\ issued = {}
    /\ file_data = <<>>
    /\ file_history = <<>>
    /\ other = [data |-> <<>>, history |-> <<>>]

\* a host where every file write and every git command succeeds
Init == Start /\ faults = 0 /\ cap = MaxHistory

\* one session on that host.  The files equal the session tables after
\* every handler there, so "Reload from disk" would change neither table
\* and is left to SpecFaulty and SpecSessions.
Next ==
    \/ NextDay
    \/ \E name \in Names, freq \in Frequencies : add_goal_form(name, freq)
    \/ \E goal_id \in GoalIds, pct \in Outcomes : update_progress(goal_id, pct)
    \/ \E goal_id \in GoalIds : delete_goal(goal_id)

Spec == Init /\ [][Next]_vars

\* tracker_utils.py driven on its own files
NextUtils ==
    \/ NextDay
    \/ \E goal_name \in Names, frequency \in UtilsFrequencies :
          utils_add_goal(goal_name, frequency)
    \/ \E goal_id \in GoalIds, pct \in Outcomes : update_goal(goal_id, pct)

SpecUtils == Init /\ [][NextUtils]_vars

\* app.py on a host where saving and pushing can fail; a session that
\* ends, by a crash or otherwise, is followed by one that reloads the files
InitFaulty == Start /\ faults = MaxFaults /\ cap = MaxHistory

NextFaulty ==
    \/ NextDay
    \/ \E name \in {<<"r">>}, freq \in {"Daily"} : add_goal_form(name, freq)
    \/ \E goal_id \in GoalIds, pct \in {0, 100} : update_progress(goal_id, pct)
    \/ \E goal_id \in GoalIds : delete_goal(goal_id)
    \/ reload

SpecFaulty == InitFaulty /\ [][NextFaulty]_vars

\* tracker_utils.py on a host where a to_csv call can fail
SpecUtilsFaulty == InitFaulty /\ [][NextUtils]_vars

\* app.py serving two browser sessions, both opened before any file exists
NextSessions ==
    \/ NextDay
    \/ \E name \in {<<"r">>}, freq \in {"Daily"} : add_goal_form(name, freq)
    \/ \E goal_id \in GoalIds, pct \in {0, 100} : update_progress(goal_id, pct)
    \/ reload
    \/ switch_session

SpecSessions == Init /\ [][NextSessions]_vars

\* date.today() on the next day
Tomorrow ==
    /\ today < LastDay
    /\ today' = today + 1
    /\ UNCHANGED <<data, history, csv_data, csv_history, last, issued,
                   file_data, file_history, other, faults, cap>>

\* one session of app.py used on consecutive days, with room for the seed
\* and one update of every goal on top of MaxHistory events
InitLong == Start /\ faults = 0 /\ cap = MaxHistory + MaxGoals

NextLong ==
    \/ Tomorrow
    \/ \E name \in {<<"r">>}, freq \in {"Daily"} : add_goal_form(name, freq)
    \/ \E goal_id \in GoalIds, pct \in {0, 100} : update_progress(goal_id, pct)
    \/ \E goal_id \in GoalIds : delete_goal(goal_id)

SpecLong == InitLong /\ [][NextLong]_vars

----------------------------------------------------------------------------
(* Properties *)

Rejections == {AlreadyMsg(f) : f \in Frequencies}

\* two dates fall in one gating period of a frequency: the same date, the
\* same ISO year and week, the same year and month
SamePeriod(freq, d1, d2) ==
    IF freq = "Weekly" THEN IsoCalendar(d1) = IsoCalendar(d2)
    ELSE IF freq = "Monthly" THEN to_period_M(d1) = to_period_M(d2)
    ELSE d1 = d2

\* C1: the History Store never holds two events of one GoalID inside one
\* gating period of that goal's frequency, the seed included.
OnePerGatingPeriod ==
    \A r \in Rows(data) : \A i, j \in DOMAIN history :
        (i < j /\ history[i].GoalID = r.GoalID /\ history[j].GoalID = r.GoalID)
            => ~SamePeriod(r.Frequency, history[i].Date, history[j].Date)

\* C2: update_progress for a goal on its creation day is rejected, whatever
\* the frequency and the outcome, and leaves the Goal Store and the History
\* Store as they were.
CreationDayUpdateRejected ==
    [][\A i \in DOMAIN data :
          (data[i].DateAdded = today /\ last'.goal_id = data[i].GoalID) =>
              \A pct \in Outcomes :
                  update_progress(data[i].GoalID, pct)
                      => /\ last'.msg \in Rejections
                         /\ UNCHANGED <<data, history>>]_vars

\* C2 witness: a Monthly goal's update was rejected on the day it was added,
\* the seed being the goal's only event.
CreationDayRejectionSeen ==
    /\ last.op = "update_progress"
    /\ last.msg = "Already updated this month."
    /\ \E r \in Rows(data) :
          /\ r.GoalID = last.goal_id
          /\ r.Frequency = "Monthly"
          /\ r.DateAdded = today
          /\ r.Progress = One
    /\ Len(data) = 1
    /\ Len(history) = 1

\* C3: for a Daily goal added on day D and not updated since, the first
\* update_progress on day D+1 with outcome 100 is accepted and sets Progress
\* to 1.01; a second update_progress on day D+1 is rejected and leaves
\* Progress at 1.01.
DailyNextDayUpdate ==
    [][\A g \in GoalIds :
        /\ (/\ update_progress(g, 100)
            /\ \E r \in Rows(data) :
                  /\ r.GoalID = g /\ r.Frequency = "Daily"
                  /\ today = r.DateAdded + 1
            /\ Updates(history, g) = {})
           => /\ last'.msg = "Progress updated!"
              /\ \A r \in Rows(data') :
                    r.GoalID = g => r.Progress = [num |-> 101, den |-> 100]
        /\ \A pct \in Outcomes :
            (/\ update_progress(g, pct)
             /\ \E r \in Rows(data) :
                   /\ r.GoalID = g /\ r.Frequency = "Daily"
                   /\ today = r.DateAdded + 1
             /\ \E i \in DOMAIN history :
                   /\ Updates(history, g) = {i}
                   /\ history[i].Date = today
                   /\ history[i].Percentage = 100)
            => /\ last'.msg \in Rejections
               /\ data' = data
               /\ \A r \in Rows(data) :
                     r.GoalID = g => r.Progress = [num |-> 101, den |-> 100]
      ]_vars

\* C4: for a Weekly goal, update_progress is rejected when the goal has an
\* event in the ISO week (ISO year and week number) of today and accepted
\* when it has none.
WeeklyGateByIsoWeek ==
    [][\A g \in GoalIds, pct \in Outcomes :
          (/\ update_progress(g, pct)
           /\ \E r \in Rows(data) : r.GoalID = g /\ r.Frequency = "Weekly")
          => IF \E i \in DOMAIN history :
                   /\ history[i].GoalID = g
                   /\ IsoCalendar(history[i].Date) = IsoCalendar(today)
             THEN last'.msg \in Rejections /\ UNCHANGED <<data, history>>
             ELSE last'.msg = "Progress updated!"]_vars

\* C5: tracker_utils.update_goal for a goal that already has an event dated
\* today (its seed on the creation day, or an earlier update of the day) is
\* rejected: the stored Progress stays and no HistoryEvent is appended.
UtilsUpdateGated ==
    [][\A g \in GoalIds, pct \in Outcomes :
          (/\ update_goal(g, pct)
           /\ \E i \in DOMAIN csv_history :
                 csv_history[i].GoalID = g /\ csv_history[i].Date = today)
          => UNCHANGED <<csv_data, csv_history>>]_vars

\* C6: the GoalID add_goal assigns differs from every GoalID assigned
\* before, the ids of deleted goals included.
GoalIdNeverReused ==
    [][\A n \in Names, f \in Frequencies :
          add_goal(n, f) => next_id(data) \notin issued]_vars

\* C7: no two rows of the Goal Store have the same GoalID.
GoalIdsUnique ==
    \A i, j \in DOMAIN data : i # j => data[i].GoalID # data[j].GoalID

\* index of the event of a GoalID with the latest date, the latest recorded
\* of them if several share that date
LatestEvent(hist, goal_id) ==
    CHOOSE i \in DOMAIN hist :
        /\ hist[i].GoalID = goal_id
        /\ \A j \in DOMAIN hist :
              hist[j].GoalID = goal_id =>
                  \/ hist[j].Date < hist[i].Date
                  \/ (hist[j].Date = hist[i].Date /\ j <= i)

\* C8: every live goal's stored Progress equals the Progress of that goal's
\* HistoryEvent with the latest date (the latest recorded one on a tie).
ProgressIsLatestEvent ==
    \A r \in Rows(data) :
        (\E i \in DOMAIN history : history[i].GoalID = r.GoalID)
            => r.Progress = history[LatestEvent(history, r.GoalID)].Progress

\* C9: every HistoryEvent belongs to a live goal, every live goal has its
\* seed event, and right after delete_goal(id) the History Store holds no
\* event with that GoalID.
NoOrphanedHistory ==
    /\ \A i \in DOMAIN history :
          \E r \in Rows(data) : r.GoalID = history[i].GoalID
    /\ \A r \in Rows(data) :
          \E i \in DOMAIN history :
              /\ history[i].GoalID = r.GoalID
              /\ history[i].Date = r.DateAdded
              /\ history[i].Change = 0
    /\ last.op = "delete_goal" =>
          \A i \in DOMAIN history : history[i].GoalID # last.goal_id

\* C9 witness: delete_goal removed a live goal while another goal, with an
\* update of its own, stays in both stores.
CascadingDeleteSeen ==
    /\ last.op = "delete_goal"
    /\ last.found
    /\ Len(data) = 1
    /\ Len(history) >= 2
    /\ data[1].GoalID # last.goal_id

\* the value an accepted update with outcome pct gives from p
Compound(p, pct) ==
    IF pct = 100 THEN [num |-> p.num * 101, den |-> p.den * 100]
    ELSE IF pct = 50 THEN [num |-> p.num * 201, den |-> p.den * 200]
    ELSE [num |-> p.num * 100, den |-> p.den * 101]

RECURSIVE Power(_, _)
Power(b, k) == IF k = 0 THEN 1 ELSE b * Power(b, k - 1)

\* C10: an accepted update maps a goal's Progress p to p*1.01 (outcome 100),
\* p*1.005 (outcome 50) or p/1.01 (outcome 0); a goal that got k accepted
\* 100% updates and no others has Progress 1.01^k.
CompoundingRule ==
    [][/\ \A g \in GoalIds, pct \in Outcomes :
            (update_progress(g, pct) /\ last'.msg = "Progress updated!")
            => \A i \in DOMAIN data :
                  data[i].GoalID = g
                      => data'[i].Progress
                           = Frac(Compound(data[i].Progress, pct).num,
                                  Compound(data[i].Progress, pct).den)
       /\ \A i \in DOMAIN data' :
            LET ups == Updates(history', data'[i].GoalID)
                k == Cardinality(ups)
            IN  (\A e \in ups : history'[e].Percentage = 100)
                    => data'[i].Progress
                         = [num |-> Power(101, k), den |-> Power(100, k)]
      ]_vars

\* C11: every goal's Progress is strictly greater than 0 after any sequence
\* of update_progress calls with outcomes 0, 50 and 100, starting from 1.0.
ProgressPositive ==
    /\ \A r \in Rows(data) : r.Progress.num > 0 /\ r.Progress.den > 0
    /\ \A e \in Rows(history) : e.Progress.num > 0 /\ e.Progress.den > 0

\* C11 witness: a goal that took two 0% updates stands at 1/1.01^2, below
\* its starting score.
ProgressBelowStartSeen ==
    \E r \in Rows(data) :
        /\ r.Progress = [num |-> 10000, den |-> 10201]
        /\ Cardinality(Updates(history, r.GoalID)) = 2
        /\ \A i \in Updates(history, r.GoalID) : history[i].Percentage = 0

\* C12: calculate_potential_progress(start_date) is 1.01 to the power of the
\* days from start_date to today, and 1.0 for a goal created today.  (Spans
\* of at most one day are compared: their powers fit the model's integers.)
PotentialIsPowerOfDays ==
    \A r \in Rows(data) :
        LET days == today - r.DateAdded
        IN  days <= 1 =>
                /\ calculate_potential_progress(r.DateAdded)
                     = Frac(Power(101, days), Power(100, days))
                /\ days = 0 => calculate_potential_progress(r.DateAdded) = One

\* the months whose calendar is rendered: the months of Days and one later
Months == {<<2024, 1>>, <<2024, 12>>, <<2025, 1>>}

\* the status of date d for the goal of row r: Start on DateAdded, else
\* Future after today, else the outcome of the event of the goal dated d
\* that was recorded last, else Missed
DayStatus(r, d) ==
    LET evs == SelectSeq(history,
                         LAMBDA e : e.GoalID = r.GoalID /\ e.Date = d)
    IN  IF d = r.DateAdded THEN "Start"
        ELSE IF d > today THEN "Future"
        ELSE IF evs # <<>> THEN PctEmoji(evs[Len(evs)].Percentage)
        ELSE "Missed"

\* C13: for every goal and every date of the rendered range, show_calendar
\* and show_last_7_days give Start on DateAdded, else Future after today,
\* else Full, Half or Zero by the latest-recorded event of that date, else
\* Missed.
DayStatusRule ==
    \A i \in DOMAIN data :
        /\ \A d \in DOMAIN show_last_7_days(data[i].GoalID) :
              show_last_7_days(data[i].GoalID)[d] = DayStatus(data[i], d)
        /\ \A ym \in Months :
              \A d \in 1..DaysInMonth(ym[1], ym[2]) :
                  show_calendar(data[i].GoalID, ym[1], ym[2])[d]
                      = DayStatus(data[i], DateOf(ym[1], ym[2], d))

\* C14: in every state of the persisted files, also after a failure or a
\* crash between the steps of save_dataframes, the goal file and the history
\* file agree: every persisted goal's Progress is the Progress of its latest
\* persisted HistoryEvent, and every persisted HistoryEvent has its goal.
FilesAgree ==
    /\ \A r \in Rows(file_data) :
          /\ \E i \in DOMAIN file_history : file_history[i].GoalID = r.GoalID
          /\ r.Progress
               = file_history[LatestEvent(file_history, r.GoalID)].Progress
    /\ \A i \in DOMAIN file_history :
          \E r \in Rows(file_data) : r.GoalID = file_history[i].GoalID

\* C15: when saving the files or pushing fails during add_goal,
\* update_progress or delete_goal, the session tables keep the change (no
\* rollback) and the failure is shown or logged; it does not leave the
\* handler as an exception.
FailedSaveKeepsChange ==
    [][faults' < faults =>
          /\ last'.op = "add_goal" =>
                /\ Len(data') = Len(data) + 1
                /\ Len(history') = Len(history) + 1
                /\ data'[Len(data')].GoalID = last'.goal_id
                /\ history'[Len(history')].GoalID = last'.goal_id
          /\ last'.op = "update_progress" =>
                /\ Len(history') = Len(history) + 1
                /\ history'[Len(history')].GoalID = last'.goal_id
                /\ \A r \in Rows(data') :
                      r.GoalID = last'.goal_id
                          => r.Progress = history'[Len(history')].Progress
          /\ last'.op = "delete_goal" =>
                /\ \A r \in Rows(data') : r.GoalID # last'.goal_id
                /\ \A e \in Rows(history') : e.GoalID # last'.goal_id
          /\ SaveReport(last'.save) \in {"st.error", "logger.error"}
      ]_vars

\* what a caller reads as "no such goal"
NotFoundResults == {"Goal ID not found"}

\* C16: an update for a goal_id that is not in the Goal Store gives a
\* NotFound result, not an exception, and leaves the tables and the files as
\* they were; this holds for update_progress of app.py and for update_goal
\* of tracker_utils.
NotFoundIsResult ==
    [][\A g \in GoalIds, pct \in Outcomes :
          /\ (update_progress(g, pct) /\ \A r \in Rows(data) : r.GoalID # g)
                => /\ last'.msg \in NotFoundResults
                   /\ UNCHANGED <<data, history, file_data, file_history>>
          /\ (update_goal(g, pct) /\ \A r \in Rows(csv_data) : r.GoalID # g)
                => /\ last'.msg \in NotFoundResults
                   /\ UNCHANGED <<csv_data, csv_history>>
      ]_vars

\* a goal row with a name that is not empty or blank and a frequency out of
\* Daily, Weekly, Monthly
ValidGoal(r) ==
    /\ r.GoalName # NaN
    /\ strip(r.GoalName) # <<>>
    /\ r.Frequency \in Frequencies

\* C17: a goal with an empty or whitespace-only name, or with a frequency
\* other than Daily, Weekly, Monthly, is rejected before any change: every
\* goal of the Goal Store, of app.py and of tracker_utils, has a non-empty
\* name and a valid frequency.
GoalsAreValid ==
    /\ \A r \in Rows(data) : ValidGoal(r)
    /\ \A r \in Rows(csv_data) : ValidGoal(r)

\* C18: a rejected update_progress has no side effects (tables and files
\* unchanged, save_dataframes not run), and its reason tells a creation-day
\* rejection from an 'already updated this period' one: the texts of
\* Rejections are reported for the latter only.
RejectedUpdateIsPure ==
    [][\A g \in GoalIds, pct \in Outcomes :
          (/\ update_progress(g, pct)
           /\ last'.found
           /\ last'.msg # "Progress updated!")
          => /\ UNCHANGED <<data, history, file_data, file_history>>
             /\ last'.save = "none"
             /\ (\E r \in Rows(data) : r.GoalID = g /\ r.DateAdded = today)
                    => last'.msg \notin Rejections
      ]_vars

\* C19: two update requests for one goal in one gating period, made from two
\* sessions that each hold their own tables, cannot both pass the gate and
\* commit: the persisted history has at most one event of the goal in the
\* period, and an accepted update never removes the persisted event of an
\* earlier accepted update.
NoLostUpdate ==
    [][(last'.op = "update_progress" /\ last'.msg = "Progress updated!") =>
          /\ \A r \in Rows(file_data') : \A i, j \in DOMAIN file_history' :
                (/\ i < j
                 /\ file_history'[i].GoalID = r.GoalID
                 /\ file_history'[j].GoalID = r.GoalID)
                => ~SamePeriod(r.Frequency, file_history'[i].Date,
                               file_history'[j].Date)
          /\ \A i \in DOMAIN file_history :
                file_history[i].Change # 0
                    => \E j \in DOMAIN file_history' :
                          file_history'[j] = file_history[i]
      ]_vars

\* a table without its k-th row
RemoveAt(tbl, k) == SubSeq(tbl, 1, k - 1) \o SubSeq(tbl, k + 1, Len(tbl))

\* C20: delete_goal(goal_id) removes exactly one goal, the one with that
\* GoalID, and exactly the HistoryEvents of that GoalID; every other goal's
\* row and events stay as they were, in their order.
DeleteRemovesOneGoal ==
    [][\A g \in GoalIds :
          (delete_goal(g) /\ \E r \in Rows(data) : r.GoalID = g)
          => /\ \E k \in DOMAIN data :
                   /\ data[k].GoalID = g
                   /\ data' = RemoveAt(data, k)
             /\ \A e \in Rows(history') : e.GoalID # g
             /\ \A h \in GoalIds \ {g} :
                   SelectSeq(history', LAMBDA e : e.GoalID = h)
                       = SelectSeq(history, LAMBDA e : e.GoalID = h)
      ]_vars

\* p <= q for two positive fractions in lowest terms: at once when 1 lies
\* between them, else by the cross products, with the common factors
\* cancelled before the products are taken
LessEq(p, q) ==
    LET gn == Gcd(p.num, q.num)
        gd == Gcd(p.den, q.den)
    IN  \/ (p.num <= p.den /\ q.den <= q.num)
        \/ /\ ~(q.num <= q.den /\ p.den < p.num)
           /\ (p.num \div gn) * (q.den \div gd)
                <= (q.num \div gn) * (p.den \div gd)

\* C21: every goal's Progress is at most its potential progress,
\* calculate_potential_progress of its DateAdded and today, after any
\* sequence of add_goal, update_progress and delete_goal on a clock that
\* never goes back.  (Goals up to LastDay days old are compared: their
\* potential fits the model's integers.)
ProgressAtMostPotential ==
    \A r \in Rows(data) :
        today - r.DateAdded <= LastDay
            => LessEq(r.Progress, calculate_potential_progress(r.DateAdded))

\* the events of hist are the first events of hist2, unmodified and in order
IsPrefix(hist, hist2) ==
    /\ Len(hist) <= Len(hist2)
    /\ SubSeq(hist2, 1, Len(hist)) = hist

\* the positions of the goal table whose row differs between two tables of
\* the same length
ChangedRows(tbl, tbl2) == {i \in DOMAIN tbl : tbl2[i] # tbl[i]}

\* C22: add_goal and update_progress only append to the history: every event
\* present before the call is present after it, unmodified and in the same
\* order; an update_progress changes the Progress of one goal's row, the row
\* of the goal it was called for, and leaves every other goal's row as it was
AppendOnlyAndOneRow ==
    [][/\ \A n \in Names, f \in Frequencies :
             add_goal(n, f) => IsPrefix(history, history')
       /\ \A goal_id \in GoalIds, pct \in Outcomes :
             update_progress(goal_id, pct) =>
                 /\ IsPrefix(history, history')
                 /\ Len(data') = Len(data)
                 /\ Cardinality(ChangedRows(data, data')) <= 1
                 /\ \A i \in ChangedRows(data, data') :
                       /\ data[i].GoalID = goal_id
                       /\ data'[i] = [data[i] EXCEPT
                                         !.Progress = data'[i].Progress]]_vars

====
